---- MODULE Spec2Model ----
(***************************************************************************)
(* LimitedVec<T, N>: a vector of at most N elements stored inline as       *)
(* [Option<T>; N] (src/src/lib.rs), with its forward iterator              *)
(* (src/src/iter.rs).                                                      *)
(*                                                                         *)
(* Option<T> is modelled as a sequence of length 0 (None) or 1 (Some(v)).  *)
(* The slot array is a function 0..N-1 -> Option<T>.  An operation that    *)
(* can panic returns a record [panic, err, val]: panic is the panic        *)
(* message (NoPanic when the call returned), err the message of a returned *)
(* Result::Err (NoErr otherwise) and val the returned Option.              *)
(*                                                                         *)
(* A behaviour is the life of one container: one constructor call (new,    *)
(* From<Vec<T>>, FromIterator or Deserialize), which either returns the    *)
(* container or fails and leaves none, followed by any calls of its        *)
(* methods, of an iterator over it, and serde round trips of it.           *)
(***************************************************************************)
EXTENDS Integers, Sequences, FiniteSets, TLC

\* Largest capacity N explored.
MaxN == 3

\* Number of distinct element values of T explored.
NumValues == 2

Values == 1..NumValues

\* usize arguments explored: every slot position and two positions past the end.
Positions == 0..(MaxN + 1)

\* Capacities of the type a serialized container is deserialized into.
Capacities == 0..(MaxN + 1)

\* Vec<T> / iterator inputs explored: up to one element more than the largest capacity.
RECURSIVE SeqsUpTo(_)
SeqsUpTo(k) ==
    IF k = 0 THEN {<<>>}
    ELSE LET shorter == SeqsUpTo(k - 1)
         IN shorter \cup {Append(s, v) : s \in {t \in shorter : Len(t) = k - 1}, v \in Values}

Inputs == SeqsUpTo(MaxN + 1)

----------------------------------------------------------------------------
\* Option<T>
None == <<>>

Some(v) == <<v>>

is_some(o) == Len(o) = 1

is_none(o) == Len(o) = 0

\* Outcomes of a call
NoPanic == "none"

PushPanic == "Trying to push more elements than SmallVec can hold"

ArrayBoundsPanic == "index out of bounds"

IndexPanic == "Index out of bounds with capacity"

FromPanic == "Vec is larger than LimitedVec's capacity"

CollectPanic == "Can't collect more elements into LimitedVec than capacity (N)"

AssertPanic == "assertion failed: N >= elemens.len()"

\* A Result::Err returned to the caller: err is its message, NoErr otherwise
NoErr == "none"

SourceError == "the sequence source failed to produce an element"

Ok(o) == [panic |-> NoPanic, err |-> NoErr, val |-> o]

Panic(msg) == [panic |-> msg, err |-> NoErr, val |-> None]

Err(msg) == [panic |-> NoPanic, err |-> msg, val |-> None]

----------------------------------------------------------------------------
\* pub fn capacity(&self) -> usize { N }
capacity(c) == Cardinality(DOMAIN c)

\* LimitedVec([None; N])
new(n) == [i \in 0..(n - 1) |-> None]

\* self.0.iter().take_while(|i| i.is_some()).count()
RECURSIVE take_while_some(_, _)
take_while_some(c, i) ==
    IF i < capacity(c) /\ is_some(c[i]) THEN 1 + take_while_some(c, i + 1) ELSE 0

len(c) == take_while_some(c, 0)

\* self.0.iter().rev().take_while(|i| i.is_none()).count()
RECURSIVE rev_take_while_none(_, _)
rev_take_while_none(c, i) ==
    IF i >= 0 /\ is_none(c[i]) THEN 1 + rev_take_while_none(c, i - 1) ELSE 0

\* free() scanning from the head: the .rev() is missing
RECURSIVE take_while_none(_, _)
take_while_none(c, i) ==
    IF i < capacity(c) /\ is_none(c[i]) THEN 1 + take_while_none(c, i + 1) ELSE 0

free_without_rev(c) == take_while_none(c, 0)

free(c) == rev_take_while_none(c, capacity(c) - 1)

is_empty(c) == len(c) = 0

is_full(c) == free(c) = 0

\* self.len().checked_sub(1)
last_idx(c) == IF len(c) >= 1 THEN Some(len(c) - 1) ELSE None

\* index() that hands out T::default() for an empty slot instead of panicking
index_unwrap_or_default(c, i) ==
    IF i >= capacity(c) THEN Panic(ArrayBoundsPanic)
    ELSE IF is_some(c[i]) THEN Ok(c[i])
    ELSE Ok(Some(1))

\* Index<usize>::index: the array access panics past N, an empty slot panics
\* with the capacity message.
index(c, i) ==
    IF i >= capacity(c) THEN Panic(ArrayBoundsPanic)
    ELSE IF is_some(c[i]) THEN Ok(c[i])
    ELSE Panic(IndexPanic)

\* get() with the bound check off by one: pos > self.len()
get_bound_off_by_one(c, pos) ==
    IF pos > len(c) THEN Ok(None) ELSE index(c, pos)

\* if pos >= self.len() { return None; } Some(&self[pos])
get(c, pos) ==
    IF pos >= len(c) THEN Ok(None) ELSE index(c, pos)

\* self.0[last_pos].as_ref()
last(c) ==
    LET last_pos == last_idx(c)
    IN IF is_none(last_pos) THEN None ELSE c[last_pos[1]]

\* self.0.iter_mut().find(|i| i.is_none()): position of the first empty slot
RECURSIVE find_none(_, _)
find_none(c, i) ==
    IF i >= capacity(c) THEN None
    ELSE IF is_none(c[i]) THEN Some(i)
    ELSE find_none(c, i + 1)

\* next_mut() searching from the tail: iter_mut().rev().find(..)
RECURSIVE rfind_none(_, _)
rfind_none(c, i) ==
    IF i < 0 THEN None
    ELSE IF is_none(c[i]) THEN Some(i)
    ELSE rfind_none(c, i - 1)

next_mut_rfind(c) == rfind_none(c, capacity(c) - 1)

next_mut(c) == find_none(c, 0)

\* push() assigning to a copy of the slot: nothing is stored
push_into_copy(c, item) ==
    LET m == next_mut(c)
    IN IF is_some(m) THEN [slots |-> c, out |-> Ok(None)]
       ELSE [slots |-> c, out |-> Panic(PushPanic)]

\* push() that returns silently when no slot is free
push_silent_when_full(c, item) ==
    LET m == next_mut(c)
    IN IF is_some(m) THEN [slots |-> [c EXCEPT ![m[1]] = Some(item)], out |-> Ok(None)]
       ELSE [slots |-> c, out |-> Ok(None)]

\* push() that overwrites the last slot of a full container before it panics
push_overwrites_when_full(c, item) ==
    LET m == next_mut(c)
    IN IF is_some(m) THEN [slots |-> [c EXCEPT ![m[1]] = Some(item)], out |-> Ok(None)]
       ELSE [slots |-> [i \in DOMAIN c |-> IF i = capacity(c) - 1 THEN Some(item) ELSE c[i]],
             out |-> Panic(PushPanic)]

\* push: the slot array after the call and the call's outcome
push(c, item) ==
    LET m == next_mut(c)
    IN IF is_some(m) THEN [slots |-> [c EXCEPT ![m[1]] = Some(item)], out |-> Ok(None)]
       ELSE [slots |-> c, out |-> Panic(PushPanic)]

\* pop() returning a copy of the last slot without clearing it
pop_without_clear(c) ==
    LET li == last_idx(c)
    IN IF is_none(li) THEN [slots |-> c, out |-> Ok(None)]
       ELSE [slots |-> c, out |-> Ok(c[li[1]])]

\* pop() taking the first element instead of the last
pop_first(c) ==
    LET li == last_idx(c)
    IN IF is_none(li) THEN [slots |-> c, out |-> Ok(None)]
       ELSE [slots |-> [i \in DOMAIN c |-> IF i < li[1] THEN c[i + 1] ELSE None],
             out |-> Ok(c[0])]

\* pop: std::mem::replace(&mut self.0[last_idx], None)
pop(c) ==
    LET li == last_idx(c)
    IN IF is_none(li) THEN [slots |-> c, out |-> Ok(None)]
       ELSE [slots |-> [c EXCEPT ![li[1]] = None], out |-> Ok(c[li[1]])]

\* last_mut() handing out the first slot instead of the last
last_mut_write_first(c, v) ==
    LET last_pos == last_idx(c)
    IN IF is_none(last_pos) THEN [slots |-> c, out |-> Ok(None)]
       ELSE [slots |-> [c EXCEPT ![0] = Some(v)], out |-> Ok(Some(v))]

\* last_mut followed by a write through the returned reference
last_mut_write(c, v) ==
    LET last_pos == last_idx(c)
    IN IF is_none(last_pos) THEN [slots |-> c, out |-> Ok(None)]
       ELSE IF is_some(c[last_pos[1]])
            THEN [slots |-> [c EXCEPT ![last_pos[1]] = Some(v)], out |-> Ok(Some(v))]
            ELSE [slots |-> c, out |-> Ok(None)]

\* from() chaining the free slots before the values
from_free_first(values, n) ==
    IF Len(values) > n THEN [built |-> FALSE, slots |-> new(n), out |-> Panic(FromPanic)]
    ELSE LET fr == n - Len(values)
             d == [i \in 0..(Len(values) + fr - 1) |->
                      IF i < fr THEN None ELSE Some(values[i - fr + 1])]
         IN [built |-> TRUE, slots |-> d, out |-> Ok(None)]

\* from() filling the slots from the back of the Vec
from_reversed(values, n) ==
    IF Len(values) > n THEN [built |-> FALSE, slots |-> new(n), out |-> Panic(FromPanic)]
    ELSE LET fr == n - Len(values)
             d == [i \in 0..(Len(values) + fr - 1) |->
                      IF i < Len(values) THEN Some(values[Len(values) - i]) ELSE None]
         IN [built |-> TRUE, slots |-> d, out |-> Ok(None)]

\* from() that keeps the first N values of a longer Vec instead of panicking
from_truncating(values, n) ==
    LET kept == IF Len(values) > n THEN SubSeq(values, 1, n) ELSE values
        fr == n - Len(kept)
        d == [i \in 0..(Len(kept) + fr - 1) |->
                 IF i < Len(kept) THEN Some(kept[i + 1]) ELSE None]
    IN [built |-> TRUE, slots |-> d, out |-> Ok(None)]

\* From<Vec<T>>::from: values mapped to Some, chained with N - len Nones
from(values, n) ==
    IF Len(values) > n THEN [built |-> FALSE, slots |-> new(n), out |-> Panic(FromPanic)]
    ELSE LET fr == n - Len(values)
             d == [i \in 0..(Len(values) + fr - 1) |->
                      IF i < Len(values) THEN Some(values[i + 1]) ELSE None]
         IN [built |-> TRUE, slots |-> d, out |-> Ok(None)]

\* FromIterator::from_iter: the loop over the stream; buf is the Vec<Option<T>>
\* built so far, k the number of elements pulled from the stream.
RECURSIVE collect_loop(_, _, _, _)
collect_loop(stream, k, buf, n) ==
    IF k >= Len(stream) THEN [panicked |-> FALSE, buf |-> buf, pulled |-> k]
    ELSE LET buf2 == Append(buf, Some(stream[k + 1]))
         IN IF Len(buf2) > n THEN [panicked |-> TRUE, buf |-> buf2, pulled |-> k + 1]
            ELSE collect_loop(stream, k + 1, buf2, n)

\* from_iter() inserting each element at the front of buf
from_iter_inserts_front(stream, n) ==
    LET rev == [j \in 1..Len(stream) |-> stream[Len(stream) - j + 1]]
        r == collect_loop(stream, 0, <<>>, n)
    IN IF r.panicked
       THEN [built |-> FALSE, slots |-> new(n), out |-> Panic(CollectPanic), pulled |-> r.pulled]
       ELSE [built |-> TRUE,
             slots |-> [i \in 0..(n - 1) |-> IF i < Len(rev) THEN Some(rev[i + 1]) ELSE None],
             out |-> Ok(None), pulled |-> r.pulled]

\* from_iter() draining the whole stream into buf before it compares with N
from_iter_checks_after_loop(stream, n) ==
    IF Len(stream) > n
    THEN [built |-> FALSE, slots |-> new(n), out |-> Panic(CollectPanic), pulled |-> Len(stream)]
    ELSE [built |-> TRUE,
          slots |-> [i \in 0..(n - 1) |-> IF i < Len(stream) THEN Some(stream[i + 1]) ELSE None],
          out |-> Ok(None), pulled |-> Len(stream)]

from_iter(stream, n) ==
    LET r == collect_loop(stream, 0, <<>>, n)
    IN IF r.panicked
       THEN [built |-> FALSE, slots |-> new(n), out |-> Panic(CollectPanic), pulled |-> r.pulled]
       ELSE LET ext == IF Len(r.buf) < n
                       THEN r.buf \o [j \in 1..(n - Len(r.buf)) |-> None]
                       ELSE r.buf
            IN [built |-> TRUE, slots |-> [i \in 0..(Len(ext) - 1) |-> ext[i + 1]],
                out |-> Ok(None), pulled |-> r.pulled]

\* next() advancing self.pos before it reads the element
next_increments_first(c, pos) ==
    LET item == get(c, pos + 1)
    IN IF item.panic # NoPanic THEN [pos |-> pos + 1, out |-> item]
       ELSE IF is_none(item.val) THEN [pos |-> pos + 1, out |-> Ok(None)]
       ELSE [pos |-> pos + 1, out |-> Ok(item.val)]

\* Iter::next: let item = self.lvec.get(self.pos)?; self.pos += 1; Some(item)
next(c, pos) ==
    LET item == get(c, pos)
    IN IF item.panic # NoPanic THEN [pos |-> pos, out |-> item]
       ELSE IF is_none(item.val) THEN [pos |-> pos, out |-> Ok(None)]
       ELSE [pos |-> pos + 1, out |-> Ok(item.val)]

\* lvec.iter().collect::<Vec<_>>(): Iter::new, then next until it yields None
RECURSIVE iter_drain(_, _)
iter_drain(c, pos) ==
    LET r == next(c, pos)
    IN IF r.out.panic # NoPanic THEN [panic |-> r.out.panic, items |-> <<>>]
       ELSE IF is_none(r.out.val) THEN [panic |-> NoPanic, items |-> <<>>]
       ELSE LET rest == iter_drain(c, r.pos)
            IN [panic |-> rest.panic, items |-> <<r.out.val[1]>> \o rest.items]

iter_collect(c) == iter_drain(c, 0)

\* serialize() that stops one element early
serialize_drops_last(c) ==
    LET items == iter_collect(c).items
    IN [declared |-> len(c),
        elems |-> IF items = <<>> THEN items ELSE SubSeq(items, 1, Len(items) - 1)]

\* Serialize::serialize: serialize_seq(Some(self.len())), then one element per
\* item of self.iter()
serialize(c) == [declared |-> len(c), elems |-> iter_collect(c).items]

\* visit_seq() that keeps the first N elements of a longer sequence
visit_seq_truncating(source, n) ==
    LET all == [j \in 1..Len(source.elems) |-> Some(source.elems[j])]
        elemens == IF Len(all) > n THEN SubSeq(all, 1, n) ELSE all
        ext == elemens \o [j \in 1..(n - Len(elemens)) |-> None]
    IN IF source.fails
       THEN [built |-> FALSE, slots |-> new(n), out |-> Err(SourceError)]
       ELSE [built |-> TRUE, slots |-> [i \in 0..(Len(ext) - 1) |-> ext[i + 1]],
             out |-> Ok(None)]

\* visit_seq() that puts the empty slots in front of the elements
visit_seq_pads_first(source, n) ==
    LET elemens == [j \in 1..Len(source.elems) |-> Some(source.elems[j])]
    IN IF source.fails
       THEN [built |-> FALSE, slots |-> new(n), out |-> Err(SourceError)]
       ELSE IF ~(n >= Len(elemens))
       THEN [built |-> FALSE, slots |-> new(n), out |-> Panic(AssertPanic)]
       ELSE LET ext == [j \in 1..(n - Len(elemens)) |-> None] \o elemens
            IN [built |-> TRUE, slots |-> [i \in 0..(Len(ext) - 1) |-> ext[i + 1]],
                out |-> Ok(None)]

\* LimitedVecVisitor::visit_seq: source.elems are the elements the SeqAccess
\* yields, source.fails tells whether next_element then returns an error
\* instead of the end of the sequence.
visit_seq(source, n) ==
    LET elemens == [j \in 1..Len(source.elems) |-> Some(source.elems[j])]
    IN IF source.fails
       THEN [built |-> FALSE, slots |-> new(n), out |-> Err(SourceError)]
       ELSE IF ~(n >= Len(elemens))
       THEN [built |-> FALSE, slots |-> new(n), out |-> Panic(AssertPanic)]
       ELSE LET ext == elemens \o [j \in 1..(n - Len(elemens)) |-> None]
            IN [built |-> TRUE, slots |-> [i \in 0..(Len(ext) - 1) |-> ext[i + 1]],
                out |-> Ok(None)]

\* Deserialize::deserialize: deserializer.deserialize_seq(LimitedVecVisitor)
deserialize(source, n) == visit_seq(source, n)

----------------------------------------------------------------------------
VARIABLES
    N,       \* the const generic capacity of the container's type
    phase,   \* "start" before the constructor ran, "live" once it returned a
             \* container, "unwound" when it panicked and "rejected" when it
             \* returned an error: no container exists then
    slots,   \* self.0, the array of N optional slots (all empty while there is no container)
    op,      \* the last call made: its name and its argument
    result,  \* the outcome of the last call
    model,   \* the abstract bounded stack run side by side with the container
    run,     \* the current run of consecutive pushes followed by consecutive pops
    pulled,  \* the number of elements the from_iter call requested from its
             \* stream; 0 for any other call, when no stream is in scope
    iter,    \* the Iter borrowing the container: whether one exists, its pos,
             \* and the items it has yielded so far
    serde    \* the last round trip: the sequence serialize emitted and the
             \* container of capacity cap deserialize built from it

vars == <<N, phase, slots, op, result, model, run, pulled, iter, serde>>

Call(name, arg) == [name |-> name, arg |-> arg]

NoRun(c) == [start |-> len(c), pushed |-> <<>>, popped |-> <<>>]

\* No iterator borrows the container.
NoIter == [alive |-> FALSE, pos |-> 0, yielded |-> <<>>]

\* No serialized form and no deserialized container are in scope.
NoSerde == [declared |-> 0, wire |-> <<>>, cap |-> 0, built |-> FALSE, slots |-> new(0)]

Init ==
    /\ N \in 0..MaxN
    /\ phase = "start"
    /\ slots = new(N)
    /\ op = Call("none", <<>>)
    /\ result = Ok(None)
    /\ model = <<>>
    /\ run = NoRun(new(N))
    /\ pulled = 0
    /\ iter = NoIter
    /\ serde = NoSerde

\* let mut c = LimitedVec::<T, N>::new()
New ==
    /\ phase = "start"
    /\ phase' = "live"
    /\ slots' = new(N)
    /\ op' = Call("new", <<>>)
    /\ result' = Ok(None)
    /\ model' = <<>>
    /\ run' = NoRun(slots')
    /\ UNCHANGED <<N, pulled, iter, serde>>

\* let mut c = LimitedVec::<T, N>::from(values); a panic constructs nothing
FromVec(values) ==
    LET r == from(values, N)
    IN /\ phase = "start"
       /\ phase' = IF r.built THEN "live" ELSE "unwound"
       /\ slots' = r.slots
       /\ op' = Call("from", values)
       /\ result' = r.out
       /\ model' = IF r.built THEN values ELSE model
       /\ run' = NoRun(slots')
       /\ UNCHANGED <<N, pulled, iter, serde>>

\* let mut c = stream.collect::<LimitedVec<T, N>>(); a panic constructs nothing
FromIter(stream) ==
    LET r == from_iter(stream, N)
    IN /\ phase = "start"
       /\ phase' = IF r.built THEN "live" ELSE "unwound"
       /\ slots' = r.slots
       /\ op' = Call("from_iter", stream)
       /\ result' = r.out
       /\ model' = IF r.built THEN stream ELSE model
       /\ run' = NoRun(slots')
       /\ pulled' = r.pulled
       /\ UNCHANGED <<N, iter, serde>>

\* let mut c = LimitedVec::<T, N>::deserialize(d), d holding the sequence values
Deserialize(values) ==
    LET r == deserialize([elems |-> values, fails |-> FALSE], N)
    IN /\ phase = "start"
       /\ phase' = IF r.built THEN "live"
                   ELSE IF r.out.panic # NoPanic THEN "unwound" ELSE "rejected"
       /\ slots' = r.slots
       /\ op' = Call("deserialize", values)
       /\ result' = r.out
       /\ model' = IF r.built THEN values ELSE model
       /\ run' = NoRun(slots')
       /\ UNCHANGED <<N, pulled, iter, serde>>

\* the same on a source that fails after it produced values
DeserializeMalformed(values) ==
    LET r == deserialize([elems |-> values, fails |-> TRUE], N)
    IN /\ phase = "start"
       /\ phase' = IF r.built THEN "live"
                   ELSE IF r.out.panic # NoPanic THEN "unwound" ELSE "rejected"
       /\ slots' = r.slots
       /\ op' = Call("deserialize_malformed", values)
       /\ result' = r.out
       /\ model' = IF r.built THEN values ELSE model
       /\ run' = NoRun(slots')
       /\ UNCHANGED <<N, pulled, iter, serde>>

\* c.push(item); after a panic the container is still there to be observed.
\* &mut self: not callable while an Iter borrows the container.
Push(item) ==
    LET r == push(slots, item)
    IN /\ phase = "live"
       /\ ~iter.alive
       /\ slots' = r.slots
       /\ op' = Call("push", <<item>>)
       /\ result' = r.out
       /\ model' = IF Len(model) < N THEN Append(model, item) ELSE model
       /\ run' = IF r.out.panic # NoPanic THEN NoRun(slots')
                 ELSE IF run.popped = <<>>
                      THEN [run EXCEPT !.pushed = Append(@, item)]
                      ELSE [start |-> len(slots), pushed |-> <<item>>, popped |-> <<>>]
       /\ serde' = NoSerde
       /\ pulled' = 0
       /\ UNCHANGED <<N, phase, iter>>

\* c.pop()
Pop ==
    LET r == pop(slots)
    IN /\ phase = "live"
       /\ ~iter.alive
       /\ slots' = r.slots
       /\ op' = Call("pop", <<>>)
       /\ result' = r.out
       /\ model' = IF model = <<>> THEN model ELSE SubSeq(model, 1, Len(model) - 1)
       /\ run' = IF Len(run.popped) < Len(run.pushed)
                 THEN [run EXCEPT !.popped = Append(@, r.out.val)]
                 ELSE NoRun(slots')
       /\ serde' = NoSerde
       /\ pulled' = 0
       /\ UNCHANGED <<N, phase, iter>>

\* if let Some(m) = c.last_mut() { *m = v }
LastMutWrite(v) ==
    LET r == last_mut_write(slots, v)
    IN /\ phase = "live"
       /\ ~iter.alive
       /\ slots' = r.slots
       /\ op' = Call("last_mut", <<v>>)
       /\ result' = r.out
       /\ model' = IF model = <<>> THEN model ELSE [model EXCEPT ![Len(model)] = v]
       /\ run' = NoRun(slots')
       /\ serde' = NoSerde
       /\ pulled' = 0
       /\ UNCHANGED <<N, phase, iter>>

\* A call through &self that returns out: it has no access to change the
\* container.  Explored while no iterator is in scope: the call neither reads
\* the iterator nor changes what it borrows.
Query(name, arg, out) ==
    /\ phase = "live"
    /\ ~iter.alive
    /\ op' = Call(name, arg)
    /\ result' = out
    /\ run' = NoRun(slots)
    /\ serde' = NoSerde
    /\ pulled' = 0
    /\ UNCHANGED <<N, phase, slots, model, iter>>

\* c.get(pos)
Get(pos) == Query("get", <<pos>>, get(slots, pos))

\* c[pos]
Index(pos) == Query("index", <<pos>>, index(slots, pos))

\* c.last()
Last == Query("last", <<>>, Ok(last(slots)))

\* c.last_idx()
LastIdx == Query("last_idx", <<>>, Ok(last_idx(slots)))

\* c.len()
LenCall == Query("len", <<>>, Ok(Some(len(slots))))

\* c.free()
Free == Query("free", <<>>, Ok(Some(free(slots))))

\* c.capacity()
Capacity == Query("capacity", <<>>, Ok(Some(capacity(slots))))

\* c.is_empty()
IsEmpty == Query("is_empty", <<>>, Ok(Some(is_empty(slots))))

\* c.is_full()
IsFull == Query("is_full", <<>>, Ok(Some(is_full(slots))))

\* let mut it = c.iter(): Iter { lvec: &c, pos: 0 }
IterNew ==
    /\ phase = "live"
    /\ ~iter.alive
    /\ iter' = [alive |-> TRUE, pos |-> 0, yielded |-> <<>>]
    /\ op' = Call("iter", <<>>)
    /\ result' = Ok(None)
    /\ run' = NoRun(slots)
    /\ serde' = NoSerde
    /\ pulled' = 0
    /\ UNCHANGED <<N, phase, slots, model>>

\* it.next()
IterNext ==
    LET r == next(slots, iter.pos)
    IN /\ phase = "live"
       /\ iter.alive
       /\ iter' = [alive |-> TRUE, pos |-> r.pos,
                   yielded |-> IF r.out.panic = NoPanic /\ is_some(r.out.val)
                               THEN Append(iter.yielded, r.out.val[1])
                               ELSE iter.yielded]
       /\ op' = Call("next", <<>>)
       /\ result' = r.out
       /\ run' = NoRun(slots)
       /\ serde' = NoSerde
       /\ pulled' = 0
       /\ UNCHANGED <<N, phase, slots, model>>

\* the lifetime 'a of the iterator's borrow ends
IterDrop ==
    /\ phase = "live"
    /\ iter.alive
    /\ iter' = NoIter
    /\ UNCHANGED <<N, phase, slots, op, result, model, run, pulled, serde>>

\* let encoded = serialize(&c); let decoded: LimitedVec<T, M> = deserialize(&encoded)
RoundTrip(M) ==
    LET encoded == serialize(slots)
        r == deserialize([elems |-> encoded.elems, fails |-> FALSE], M)
    IN /\ phase = "live"
       /\ ~iter.alive
       /\ serde' = [declared |-> encoded.declared, wire |-> encoded.elems,
                    cap |-> M, built |-> r.built, slots |-> r.slots]
       /\ op' = Call("roundtrip", <<M>>)
       /\ result' = r.out
       /\ run' = NoRun(slots)
       /\ pulled' = 0
       /\ UNCHANGED <<N, phase, slots, model, iter>>

Next ==
    \/ New
    \/ \E values \in Inputs : FromVec(values)
    \/ \E stream \in Inputs : FromIter(stream)
    \/ \E values \in Inputs : Deserialize(values)
    \/ \E values \in Inputs : DeserializeMalformed(values)
    \/ \E item \in Values : Push(item)
    \/ Pop
    \/ \E v \in Values : LastMutWrite(v)
    \/ \E pos \in Positions : Get(pos)
    \/ \E pos \in Positions : Index(pos)
    \/ Last
    \/ LastIdx
    \/ LenCall
    \/ Free
    \/ Capacity
    \/ IsEmpty
    \/ IsFull
    \/ IterNew
    \/ IterNext
    \/ IterDrop
    \/ \E M \in Capacities : RoundTrip(M)

Spec == Init /\ [][Next]_vars

----------------------------------------------------------------------------
\* The slot array has no empty slot followed by an occupied one.
HeadPacked(c) ==
    \E L \in 0..capacity(c) : \A i \in DOMAIN c : is_some(c[i]) <=> i < L

\* C1: after any sequence of constructors, push, pop and writes through
\* last_mut, failing calls included, the slot array has exactly N slots and is
\* head-packed: for some L in 0..N slots [0, L) are occupied and [L, N) empty.
C1_HeadPacked ==
    (phase = "live") =>
        /\ capacity(slots) = N
        /\ DOMAIN slots = 0..(N - 1)
        /\ HeadPacked(slots)
        /\ \A i, j \in DOMAIN slots : (i < j /\ is_none(slots[i])) => is_none(slots[j])

\* A partly filled container left behind by a pop that returned an element.
C1_Witness ==
    /\ op.name = "pop"
    /\ is_some(result.val)
    /\ len(slots) >= 1
    /\ len(slots) < N

\* C2: in every reachable state, for every capacity including 0,
\* free() + len() = capacity() = N, is_full() holds exactly when len() = N and
\* is_empty() exactly when len() = 0.
C2_FreePlusLen ==
    (phase = "live") =>
        /\ free(slots) + len(slots) = capacity(slots)
        /\ capacity(slots) = N
        /\ is_full(slots) <=> (len(slots) = N)
        /\ is_empty(slots) <=> (len(slots) = 0)

\* A container with both occupied and free slots.
C2_Witness ==
    /\ phase = "live"
    /\ len(slots) >= 1
    /\ free(slots) >= 1
    /\ N = MaxN

\* C3: the occupied prefix read through get(0..len()) equals the abstract
\* bounded stack run side by side with the container.
C3_RefinesStack ==
    (phase = "live") =>
        /\ len(slots) = Len(model)
        /\ \A i \in 0..(Len(model) - 1) : get(slots, i) = Ok(Some(model[i + 1]))

\* Two different values pushed one after the other.
C3_Witness ==
    /\ op.name = "push"
    /\ result.panic = NoPanic
    /\ Len(model) >= 2
    /\ model[Len(model) - 1] # model[Len(model)]

\* C4: push(v) with length L < N returns, writes v into the first empty slot,
\* which is slot L, and afterwards len() = L + 1, free() = N - L - 1,
\* get(L) = v and get(i) for i < L is what it was.
C4_PushStores ==
    [][(op'.name = "push" /\ len(slots) < N) =>
         LET L == len(slots)
             v == op'.arg[1]
         IN /\ result'.panic = NoPanic
            /\ next_mut(slots) = Some(L)
            /\ slots' = [slots EXCEPT ![L] = Some(v)]
            /\ len(slots') = L + 1
            /\ free(slots') = N - L - 1
            /\ get(slots', L) = Ok(Some(v))
            /\ \A i \in 0..(L - 1) : get(slots', i) = get(slots, i)]_vars

\* A push that returned on a container that already held an element.
C4_Witness ==
    /\ op.name = "push"
    /\ result.panic = NoPanic
    /\ len(slots) >= 2
    /\ get(slots, len(slots) - 1) = Ok(Some(op.arg[1]))

\* C5: push panics exactly when the container is full (len() = N, for every
\* N >= 0), and then stores nothing.
C5_PushFullPanics ==
    [][op'.name = "push" =>
         /\ (result'.panic = PushPanic) <=> (len(slots) = N)
         /\ result'.panic \in {PushPanic, NoPanic}
         /\ (len(slots) = N) => (slots' = slots)]_vars

\* The fourth push on a container of capacity 3.
C5_Witness ==
    /\ op.name = "push"
    /\ result.panic = PushPanic
    /\ N = 3
    /\ len(slots) = 3

\* C6: pop() with length L > 0 returns the element at index L - 1, empties
\* that slot and leaves len() = L - 1 with indices [0, L - 1) unchanged;
\* with L = 0 it returns None, changes nothing, and it never panics.
C6_PopTakesLast ==
    [][op'.name = "pop" =>
         LET L == len(slots)
         IN /\ result'.panic = NoPanic
            /\ (L > 0) =>
                 /\ is_some(result'.val)
                 /\ result' = get(slots, L - 1)
                 /\ is_none(slots'[L - 1])
                 /\ len(slots') = L - 1
                 /\ \A i \in 0..(L - 2) : get(slots', i) = get(slots, i)
            /\ (L = 0) => (result'.val = None /\ slots' = slots)]_vars

\* A pop that returned an element and left at least two behind.
C6_Witness ==
    /\ op.name = "pop"
    /\ is_some(result.val)
    /\ len(slots) >= 2

\* C7: after k >= 1 consecutive pushes from length L (all within capacity)
\* followed by j <= k consecutive pops, the pops returned the pushed values in
\* reverse order and len() = L + k - j; so after k pops len() = L.
C7_PushPopReverse ==
    LET k == Len(run.pushed)
        j == Len(run.popped)
    IN /\ j <= k
       /\ run.start + k <= N
       /\ (j >= 1) =>
            /\ \A m \in 1..j : run.popped[m] = Some(run.pushed[k - m + 1])
            /\ len(slots) = run.start + k - j

\* Two different values pushed onto a non-empty container and both popped.
C7_Witness ==
    /\ Len(run.pushed) = 2
    /\ Len(run.popped) = 2
    /\ run.start >= 1
    /\ run.pushed[1] # run.pushed[2]

\* C8: for every position i, get(i) never panics; it returns the element at
\* index i, equal to index(i), when i < len(), and None when i >= len().
C8_GetNeverFails ==
    /\ (phase = "live") => \A i \in Positions :
         LET r == get(slots, i)
         IN /\ r.panic = NoPanic
            /\ (i < len(slots)) => (is_some(r.val) /\ r = index(slots, i) /\ r.val = slots[i])
            /\ (i >= len(slots)) => (r.val = None)
    /\ (op.name = "get") => (result = get(slots, op.arg[1]) /\ result.panic = NoPanic)

\* get called with a position past the capacity of a non-empty container.
C8_Witness ==
    /\ op.name = "get"
    /\ op.arg[1] >= N
    /\ len(slots) >= 1
    /\ result = Ok(None)

\* C9: c[i] panics for every i >= len(), with the capacity message when
\* len() <= i < N and with the array bounds message when i >= N, and returns
\* the element for every i < len().
C9_IndexOutOfBounds ==
    /\ (phase = "live") => \A i \in Positions :
         LET r == index(slots, i)
         IN /\ (i < len(slots)) => (r.panic = NoPanic /\ r.val = slots[i] /\ is_some(r.val))
            /\ (i >= len(slots) /\ i < N) => (r = Panic(IndexPanic))
            /\ (i >= N) => (r = Panic(ArrayBoundsPanic))
    /\ (op.name = "index") => (result = index(slots, op.arg[1]))

\* c[len()] on a container that is neither empty nor full.
C9_Witness ==
    /\ op.name = "index"
    /\ op.arg[1] = len(slots)
    /\ len(slots) >= 1
    /\ len(slots) < N
    /\ result.panic = IndexPanic

\* C10: From<Vec<T>> of a sequence s with |s| <= N returns a container with
\* len() = |s| and free() = N - |s| whose iteration yields s in order, and
\* get(|s|) is None.
C10_FromVec ==
    (op.name = "from" /\ Len(op.arg) <= N) =>
        /\ phase = "live"
        /\ result.panic = NoPanic
        /\ len(slots) = Len(op.arg)
        /\ free(slots) = N - Len(op.arg)
        /\ iter_collect(slots) = [panic |-> NoPanic, items |-> op.arg]
        /\ get(slots, Len(op.arg)) = Ok(None)

\* A Vec of two different elements converted into a container of capacity 3.
C10_Witness ==
    /\ op.name = "from"
    /\ N = 3
    /\ Len(op.arg) = 2
    /\ op.arg[1] # op.arg[2]
    /\ result.panic = NoPanic

\* C11: From<Vec<T>> of a sequence s with |s| > N panics with the capacity
\* message and constructs no container.
C11_FromVecTooLong ==
    (op.name = "from" /\ Len(op.arg) > N) =>
        /\ result = Panic(FromPanic)
        /\ phase = "unwound"
        /\ len(slots) = 0
        /\ model = <<>>

\* A Vec one element longer than a non-zero capacity.
C11_Witness ==
    /\ op.name = "from"
    /\ N >= 1
    /\ Len(op.arg) = N + 1
    /\ result.panic = FromPanic

\* C12: collecting the elements of a sequence s with |s| <= N gives the
\* container From<Vec<T>> gives for s: the same slot array, so the same length
\* and the same elements in the same order.
C12_CollectEqualsFrom ==
    (op.name = "from_iter" /\ Len(op.arg) <= N) =>
        /\ phase = "live"
        /\ from(op.arg, N).built
        /\ slots = from(op.arg, N).slots
        /\ len(slots) = Len(op.arg)
        /\ iter_collect(slots).items = op.arg

\* A stream of two different elements collected into a container of capacity 3.
C12_Witness ==
    /\ op.name = "from_iter"
    /\ phase = "live"
    /\ N = 3
    /\ Len(op.arg) = 2
    /\ op.arg[1] # op.arg[2]

\* C13: from_iter panics exactly when the stream holds more than N elements,
\* having requested exactly N + 1 of them and no more; a stream of m <= N
\* elements is consumed whole and gives a container with len() = m.
C13_CollectFailsAtNPlusOne ==
    (op.name = "from_iter") =>
        /\ result.panic \in {NoPanic, CollectPanic}
        /\ (result.panic = CollectPanic) <=> (Len(op.arg) > N)
        /\ (Len(op.arg) > N) => (pulled = N + 1 /\ phase = "unwound")
        /\ (Len(op.arg) <= N) =>
             (pulled = Len(op.arg) /\ phase = "live" /\ len(slots) = Len(op.arg))

\* A stream holding two elements more than the capacity.
C13_Witness ==
    /\ op.name = "from_iter"
    /\ N >= 1
    /\ Len(op.arg) = N + 2
    /\ result.panic = CollectPanic
    /\ pulled = N + 1

\* C14: an iterator over a container of length L yields the elements at
\* indices 0, 1, ..., L-1 in order, its pos advancing by 1 per element; once
\* pos = L every further next() returns None and leaves pos at L; next() never
\* changes the container.
C14_IterInOrder ==
    /\ [](iter.alive =>
            /\ iter.pos <= len(slots)
            /\ Len(iter.yielded) = iter.pos
            /\ \A j \in 1..iter.pos : slots[j - 1] = Some(iter.yielded[j]))
    /\ [][(op'.name = "next" /\ iter.alive /\ iter'.alive) =>
            LET L == len(slots)
                p == iter.pos
            IN /\ slots' = slots
               /\ (p < L) => (result' = Ok(slots[p]) /\ iter'.pos = p + 1)
               /\ (p >= L) => (result' = Ok(None) /\ iter'.pos = p /\ iter' = iter)]_vars

\* An iterator that yielded two different elements and then returned None.
C14_Witness ==
    /\ iter.alive
    /\ op.name = "next"
    /\ result = Ok(None)
    /\ iter.pos = len(slots)
    /\ Len(iter.yielded) >= 2
    /\ iter.yielded[1] # iter.yielded[2]

\* C15: serialize emits exactly the len() occupied elements in order, never
\* an empty slot, and deserializing them into the same capacity N gives a
\* container with the same slot array.
C15_RoundTripSameCapacity ==
    (op.name = "roundtrip") =>
        /\ serde.declared = len(slots)
        /\ Len(serde.wire) = len(slots)
        /\ \A j \in 1..Len(serde.wire) : Some(serde.wire[j]) = slots[j - 1]
        /\ (op.arg[1] = N) =>
             /\ result = Ok(None)
             /\ serde.built
             /\ serde.slots = slots
             /\ len(serde.slots) = len(slots)

\* A partly filled container of two different elements round-tripped into its own capacity.
C15_Witness ==
    /\ op.name = "roundtrip"
    /\ op.arg[1] = N
    /\ len(slots) >= 2
    /\ free(slots) >= 1
    /\ serde.wire[1] # serde.wire[2]
    /\ serde.slots = slots

\* C16: deserializing a sequence of length k into capacity N fails on the
\* capacity assertion and constructs no container when k > N; when k <= N it
\* returns a head-packed container of length k holding the elements in order.
C16_DeserializeLength ==
    (op.name = "deserialize") =>
        LET k == Len(op.arg)
        IN /\ (k > N) => (result.panic = AssertPanic /\ phase # "live" /\ len(slots) = 0)
           /\ (k <= N) =>
                /\ result = Ok(None)
                /\ phase = "live"
                /\ capacity(slots) = N
                /\ HeadPacked(slots)
                /\ len(slots) = k
                /\ \A i \in 0..(k - 1) : get(slots, i) = Ok(Some(op.arg[i + 1]))

\* A sequence one element longer than a non-zero capacity.
C16_Witness ==
    /\ op.name = "deserialize"
    /\ N >= 1
    /\ Len(op.arg) = N + 1
    /\ phase # "live"

\* C17 (as claimed): a sequence longer than N makes deserialize return an
\* error value to its caller; it does not panic.
C17_TypedError ==
    (op.name = "deserialize" /\ Len(op.arg) > N) =>
        /\ result.panic = NoPanic
        /\ result.err # NoErr
        /\ phase = "rejected"

\* C18 (as claimed): deserializing the serialized form of a container of
\* capacity N into any smaller capacity M < N fails, and into any larger
\* capacity M > N succeeds with the same element sequence.
C18_SmallerAlwaysFails ==
    (op.name = "roundtrip") =>
        LET M == op.arg[1]
        IN /\ (M < N) => (~serde.built /\ result # Ok(None))
           /\ (M > N) =>
                /\ serde.built
                /\ result = Ok(None)
                /\ iter_collect(serde.slots).items = iter_collect(slots).items

\* C18 (amended): deserializing the serialized form of a container c into
\* capacity M fails on the capacity assertion exactly when len(c) > M, which
\* needs M < N; whenever len(c) <= M, so for every M > N and also for M < N
\* when c holds at most M elements, it succeeds with the same element sequence.
C18_FailsIffLenExceeds ==
    (op.name = "roundtrip") =>
        LET M == op.arg[1]
            L == len(slots)
        IN /\ (L > M) => (M < N /\ ~serde.built /\ result = Panic(AssertPanic))
           /\ (L <= M) =>
                /\ serde.built
                /\ result = Ok(None)
                /\ capacity(serde.slots) = M
                /\ len(serde.slots) = L
                /\ iter_collect(serde.slots).items = iter_collect(slots).items
           /\ (M > N) => serde.built

\* A non-empty container deserialized with success into a smaller capacity.
C18_Witness ==
    /\ op.name = "roundtrip"
    /\ op.arg[1] < N
    /\ len(slots) >= 1
    /\ serde.built
    /\ len(serde.slots) = len(slots)

\* C19: a push on a full container, a pop on an empty one, and every call of
\* get, last, len, free, is_empty, is_full, capacity, iter and next leave
\* every slot as it was.
C19_FailedCallsChangeNothing ==
    [][LET quiet ==
             \/ op'.name \in {"get", "last", "len", "free", "is_empty", "is_full",
                              "capacity", "iter", "next"}
             \/ op'.name = "push" /\ len(slots) = N
             \/ op'.name = "pop" /\ len(slots) = 0
       IN quiet =>
            /\ slots' = slots
            /\ len(slots') = len(slots)
            /\ N' = N
            /\ (op'.name = "push") => (result'.panic = PushPanic)
            /\ (op'.name = "pop") => (result' = Ok(None))]_vars

\* A full container of two different elements after a push that panicked.
C19_Witness ==
    /\ op.name = "push"
    /\ result.panic = PushPanic
    /\ N = 2
    /\ len(slots) = 2
    /\ slots[0] # slots[1]

\* C20: last() is present exactly when len() > 0 and is then get(len() - 1);
\* last_mut() is present exactly when len() > 0, and a write through it
\* replaces the element at len() - 1 only: len(), free() and the elements
\* below stay, and the slot array stays head-packed.
C20_LastAndLastMut ==
    /\ []((phase = "live") =>
            /\ is_some(last(slots)) <=> (len(slots) > 0)
            /\ (len(slots) > 0) => (Ok(last(slots)) = get(slots, len(slots) - 1))
            /\ (op.name = "last") => (result = Ok(last(slots))))
    /\ [][(op'.name = "last_mut") =>
            LET L == len(slots)
                v == op'.arg[1]
            IN /\ is_some(result'.val) <=> (L > 0)
               /\ (L = 0) => (slots' = slots)
               /\ (L > 0) =>
                    /\ slots' = [slots EXCEPT ![L - 1] = Some(v)]
                    /\ len(slots') = L
                    /\ free(slots') = free(slots)
                    /\ get(slots', L - 1) = Ok(Some(v))
                    /\ \A i \in 0..(L - 2) : get(slots', i) = get(slots, i)
                    /\ HeadPacked(slots')]_vars

\* A write through last_mut() that left a different first element in place.
C20_Witness ==
    /\ op.name = "last_mut"
    /\ len(slots) >= 2
    /\ slots[len(slots) - 1] = Some(op.arg[1])
    /\ slots[0] # Some(op.arg[1])

====
